---- MODULE Spec2Model ----
(***************************************************************************)
(* A model of codesweep's task execution engine: executeTasks,             *)
(* executeWithConcurrency and runTask, with the p-limit limiter and the    *)
(* Promise.all they rest on (Spec, FairSpec; HangSpec adds agents that     *)
(* never exit), of the retrier retryWithBackoff (RetrySpec), and of        *)
(* cloneRepository and ensureRepoExists, which call the retrier            *)
(* (RepoSpec).  The engine shares no state with the two others: each       *)
(* specification leaves the variables it does not use at their initial     *)
(* value.                                                                  *)
(*                                                                         *)
(* Granularity.  JavaScript runs one event-loop callback to completion,    *)
(* and drains the microtask queue before the next callback.  An action of  *)
(* this model is therefore one completion of a real asynchronous operation *)
(* (a file-system call, a child process exit) together with everything the *)
(* continuations do synchronously after it: the rest of runTask up to its  *)
(* next await, the counter update in the limiter callback, p-limit's       *)
(* next() that starts the next queued unit, and the resolution of          *)
(* Promise.all when the last unit has settled.                             *)
(*                                                                         *)
(* Strings that are compared or taken apart (paths) are sequences of       *)
(* UTF-16 code units; strings that are only carried (messages) are TLA+    *)
(* strings.  A JavaScript object is a record; a key the object does not    *)
(* have is a field the record does not have.                               *)
(***************************************************************************)
EXTENDS Integers, Sequences, FiniteSets, TLC

\* ------------------------------------------------------------------ bounds

\* Largest concurrency limit (config.maxJobs) explored.
MaxJobsBound == 3

\* Longest task file list handed directly to executeWithConcurrency.
MaxUnits == 3

\* Most entries of the output directory that executeTasks lists.
MaxEntries == 2

\* Number of executeWithConcurrency calls in one process.
MaxInvocations == 2

\* ------------------------------------------------------------------ values

\* the value of a variable that holds no object (null / undefined)
null == "null"

\* a JavaScript object without any key
emptyObject == [f \in {} |-> FALSE]

\* obj.key !== undefined
Has(obj, key) == key \in DOMAIN obj

Min(a, b) == IF a <= b THEN a ELSE b

\* ------------------------------------------------------------------ paths

\* path.join(a, b) for two normalised, non-empty paths: a + "/" + b
pathJoin(a, b) == a \o <<47>> \o b

\* index of the last "/" of p, 0 when there is none
LastSlash(p) ==
    LET S == {k \in 1..Len(p) : p[k] = 47}
    IN IF S = {} THEN 0 ELSE CHOOSE k \in S : \A j \in S : j <= k

\* path.dirname(p) of a normalised path without trailing slash
pathDirname(p) ==
    LET k == LastSlash(p)
    IN IF k = 0 THEN <<46>>
       ELSE IF k = 1 THEN <<47>>
       ELSE SubSeq(p, 1, k - 1)

\* path.basename(p)
pathBasename(p) == SubSeq(p, LastSlash(p) + 1, Len(p))

\* a < b in JavaScript's string order (code unit by code unit, prefix first)
StrLess(a, b) ==
    \E k \in 1..(Len(b)) :
        /\ \A j \in 1..(k - 1) : j <= Len(a) /\ a[j] = b[j]
        /\ k - 1 <= Len(a)
        /\ \/ k = Len(a) + 1
           \/ k <= Len(a) /\ a[k] < b[k]

\* the literal 'task.md'
TaskMd == <<116, 97, 115, 107, 46, 109, 100>>

\* the literal 'execution.log'
ExecutionLog == <<101, 120, 101, 99, 117, 116, 105, 111, 110, 46, 108, 111, 103>>

\* the output directory handed to executeTasks: "t"
OutputDir == <<116>>

\* names a directory entry may have: "a", "a-b", "b"
ItemNames == {<<97>>, <<97, 45, 98>>, <<98>>}

\* what a directory entry is: a plain file, a directory without task.md,
\* a directory with task.md
ItemKinds == {"file", "dir", "taskdir"}

\* every directory listing fs.readdir may return: at most n entries with
\* distinct names out of `names`, in any order
RECURSIVE ListingsOver(_, _)
ListingsOver(names, n) ==
    IF n = 0 THEN {<<>>}
    ELSE {<<>>} \cup
         UNION {{<<[name |-> m, kind |-> k]>> \o rest :
                    rest \in ListingsOver(names \ {m}, n - 1)} :
                  <<m, k>> \in names \X ItemKinds}

Listings == ListingsOver(ItemNames, MaxEntries)

\* the task file of a task directory
TaskFileOf(name) == pathJoin(pathJoin(OutputDir, name), TaskMd)

\* the list of n task files handed directly to executeWithConcurrency:
\* t/b/task.md, t/a/task.md, t/b/task.md, ... (unsorted, with repetitions)
DirectList(n) ==
    [k \in 1..n |-> IF k % 2 = 1 THEN TaskFileOf(<<98>>) ELSE TaskFileOf(<<97>>)]

\* -------------------------------------------------------------- executeTasks

\* the loop over allItems: a subdirectory holding task.md contributes its
\* task.md path, in listing order
RECURSIVE collectTaskFiles(_)
collectTaskFiles(allItems) ==
    IF allItems = <<>> THEN <<>>
    ELSE LET item == Head(allItems)
             itemPath == pathJoin(OutputDir, item.name)
             rest == collectTaskFiles(Tail(allItems))
         IN IF item.kind = "taskdir"
            THEN <<pathJoin(itemPath, TaskMd)>> \o rest
            ELSE rest

\* insert one string into a sorted array, after the elements not greater
RECURSIVE insertSorted(_, _)
insertSorted(x, s) ==
    IF s = <<>> THEN <<x>>
    ELSE IF StrLess(x, Head(s)) THEN <<x>> \o s
    ELSE <<Head(s)>> \o insertSorted(x, Tail(s))

\* (variant) the array is left in the order of the directory listing
arrayUnsorted(s) == s

\* Array.prototype.sort() without comparator: ascending code-unit order
RECURSIVE arraySort(_)
arraySort(s) ==
    IF s = <<>> THEN <<>>
    ELSE insertSorted(s[Len(s)], arraySort(SubSeq(s, 1, Len(s) - 1)))

\* (variant) an empty task file list is handed on
noTaskFilesUnchecked(files) == FALSE

\* if (taskFiles.length === 0) throw
noTaskFiles(files) == Len(files) = 0

\* taskFiles as executeTasks hands them on
sortedTaskFiles(allItems) == arraySort(collectTaskFiles(allItems))

\* ---------------------------------------------------------- detectClaudePath

\* the file locations detectClaudePath probes, in order
ClaudeCandidates ==
    << "~/.claude/local/node_modules/.bin/claude",
       "~/.claude/local/claude",
       "~/.local/bin/claude",
       "/usr/local/bin/claude",
       "/opt/homebrew/bin/claude" >>

\* the machines explored: which files exist, and what `which claude` prints
FsWorlds ==
    { [existing |-> {}, which |-> ""],
      [existing |-> {}, which |-> "/usr/bin/claude"],
      [existing |-> {"/usr/bin/claude"}, which |-> "/usr/bin/claude"],
      [existing |-> {"/usr/local/bin/claude", "/opt/homebrew/bin/claude"}, which |-> ""] }

\* first existing candidate, else the existing output of `which`, else 'claude'
detectClaudePath(world) ==
    LET hits == {k \in DOMAIN ClaudeCandidates : ClaudeCandidates[k] \in world.existing}
    IN IF hits # {}
       THEN ClaudeCandidates[CHOOSE k \in hits : \A j \in hits : k <= j]
       ELSE IF world.which # "" /\ world.which \in world.existing
       THEN world.which
       ELSE "claude"

\* ---------------------------------------------------------- extractRepoPaths

\* what fs.readFile(taskFile) may meet
TaskFileStates ==
    {[readable |-> FALSE, taskDirLine |-> FALSE, repoCodeLine |-> FALSE]} \cup
    {[readable |-> TRUE, taskDirLine |-> a, repoCodeLine |-> b] : a, b \in BOOLEAN}

extractRepoPaths(file) ==
    IF ~file.readable
    THEN [threw |-> TRUE, message |-> "ENOENT: no such file or directory"]
    ELSE IF ~file.taskDirLine
    THEN [threw |-> TRUE, message |-> "Could not extract task directory from task file"]
    ELSE IF ~file.repoCodeLine
    THEN [threw |-> TRUE, message |-> "Could not extract repository code path from task file"]
    ELSE [threw |-> FALSE, message |-> ""]

\* ------------------------------------------------------------------ runTask

\* taskName = path.basename(path.dirname(taskFile))
taskNameOf(taskFile) == pathBasename(pathDirname(taskFile))

\* (variant) one log file for the whole output directory
logFileShared(taskFile) == pathJoin(OutputDir, ExecutionLog)

\* logFile = path.join(path.dirname(taskFile), 'execution.log')
logFileOf(taskFile) == pathJoin(pathDirname(taskFile), ExecutionLog)

\* how an async function ends
Return(v) == [kind |-> "return", value |-> v]
Throw(e) == [kind |-> "throw", value |-> e]

\* the exit codes explored: success, failure, command not found
ExitCodes == {0, 1, 127}

\* (variant) no inner try/catch: a non-zero exit reaches the outer catch
runTaskAfterExitOuterCatch(taskFile, logFile, exitCode) ==
    IF exitCode # 0
    THEN Return([success |-> FALSE, taskName |-> taskNameOf(taskFile),
                 error |-> "exit code not zero"])
    ELSE Return([success |-> TRUE, taskName |-> taskNameOf(taskFile), logFile |-> logFile])

\* the await of the agent command and what follows it: zx rejects on a non-zero
\* exit code, the inner catch returns a failed result that keeps the log file
runTaskAfterExit(taskFile, logFile, exitCode) ==
    IF exitCode # 0
    THEN Return([success |-> FALSE, taskName |-> taskNameOf(taskFile), logFile |-> logFile])
    ELSE Return([success |-> TRUE, taskName |-> taskNameOf(taskFile), logFile |-> logFile])

\* (variant) the outer catch rethrows
runTaskRethrow(taskFile, message) == Throw(message)

\* (variant) the check after fs.pathExists(repoCodePath) is missing
checkRepoCodeSkipped(exists) == [threw |-> FALSE, message |-> ""]

\* the check after fs.pathExists(repoCodePath)
checkRepoCode(exists) ==
    IF ~exists
    THEN [threw |-> TRUE, message |-> "Repository code directory does not exist"]
    ELSE [threw |-> FALSE, message |-> ""]

\* the outer catch: any exception of the try block becomes a failed result that
\* carries error.message
runTaskCatch(taskFile, message) ==
    Return([success |-> FALSE, taskName |-> taskNameOf(taskFile), error |-> message])

\* (variant) successful is incremented for every result, failed ones too
limitCallbackCountsAll(outcome) ==
    IF outcome.kind = "return"
    THEN [settle |-> "fulfilled", value |-> outcome.value,
          successful |-> 1,
          failed |-> IF outcome.value.success THEN 0 ELSE 1]
    ELSE [settle |-> "rejected", value |-> [error |-> outcome.value],
          successful |-> 0, failed |-> 0]

\* (variant) only a result of a spawned agent (one that has a log file) is
\* counted as failed
limitCallbackCountsSpawnedOnly(outcome) ==
    IF outcome.kind = "return"
    THEN [settle |-> "fulfilled", value |-> outcome.value,
          successful |-> IF outcome.value.success THEN 1 ELSE 0,
          failed |-> IF ~outcome.value.success /\ Has(outcome.value, "logFile")
                     THEN 1 ELSE 0]
    ELSE [settle |-> "rejected", value |-> [error |-> outcome.value],
          successful |-> 0, failed |-> 0]

\* (variant) the else branch that counts a failed result is missing
limitCallbackNoElse(outcome) ==
    IF outcome.kind = "return"
    THEN [settle |-> "fulfilled", value |-> outcome.value,
          successful |-> IF outcome.value.success THEN 1 ELSE 0,
          failed |-> 0]
    ELSE [settle |-> "rejected", value |-> [error |-> outcome.value],
          successful |-> 0, failed |-> 0]

\* (variant) a failed result is raised as an exception
limitCallbackThrowsOnFailure(outcome) ==
    IF outcome.kind = "return" /\ outcome.value.success
    THEN [settle |-> "fulfilled", value |-> outcome.value, successful |-> 1, failed |-> 0]
    ELSE [settle |-> "rejected", value |-> [error |-> "task failed"],
          successful |-> 0, failed |-> 0]

\* the async callback handed to limit(): it awaits runTask, counts the result
\* and returns it; an exception of runTask rejects the callback's promise
\* before any counter is touched
limitCallback(outcome) ==
    IF outcome.kind = "return"
    THEN [settle |-> "fulfilled", value |-> outcome.value,
          successful |-> IF outcome.value.success THEN 1 ELSE 0,
          failed |-> IF outcome.value.success THEN 0 ELSE 1]
    ELSE [settle |-> "rejected", value |-> [error |-> outcome.value],
          successful |-> 0, failed |-> 0]

\* ------------------------------------------------------------------ p-limit

\* (variant) the limiter keeps one slot unused
pLimitStartedOneLess(n, concurrency) == 1..Min(n, concurrency - 1)

\* (variant) the limiter admits one call too many
pLimitStartedOneMore(n, concurrency) == 1..Min(n, concurrency + 1)

\* limit(fn) called n times in a row on a fresh pLimit(concurrency): the calls
\* that find activeCount < concurrency run at once
pLimitStarted(n, concurrency) == 1..Min(n, concurrency)

\* (variant) the waiting calls are kept in reverse call order
pLimitQueuedReversed(n, concurrency) ==
    [k \in 1..(n - Min(n, concurrency)) |-> n + 1 - k]

\* (variant) every call is put on the queue, the ones that run at once too
pLimitQueuedAll(n, concurrency) == [k \in 1..n |-> k]

\* ... and the others wait in the queue, in call order
pLimitQueued(n, concurrency) ==
    [k \in 1..(n - Min(n, concurrency)) |-> Min(n, concurrency) + k]

\* (variant) the queue is last in, first out
pLimitDequeueLast(q) == q[Len(q)]

\* next(): the queue is first in, first out
pLimitDequeue(q) == Head(q)

\* -------------------------------------------------------------- Promise.all

\* (variant) the values in the order in which the promises settled
promiseValuesByCompletion(u) ==
    [k \in DOMAIN u |-> u[CHOOSE i \in DOMAIN u : u[i].rank = k].result]

\* Promise.all(taskPromises): the values in the order of the promises
promiseAllValues(u) == [i \in DOMAIN u |-> u[i].result]

\* (variant) a deadline: a promise whose agent never exits is left out
promiseAllSkipsHung(u) ==
    IF \E i \in DOMAIN u : u[i].settle = "rejected" THEN "rejected"
    ELSE IF \A i \in DOMAIN u : u[i].settle = "fulfilled" \/ u[i].pc = "hung"
    THEN "fulfilled"
    ELSE "pending"

\* (variant) Promise.race / Promise.any: settled by the first promise that is
promiseRaceState(u) ==
    IF \E i \in DOMAIN u : u[i].settle = "rejected" THEN "rejected"
    ELSE IF u = <<>> \/ \E i \in DOMAIN u : u[i].settle = "fulfilled" THEN "fulfilled"
    ELSE "pending"

\* Promise.all settles: fulfilled once every promise is, rejected as soon as
\* one is rejected, pending otherwise
promiseAllState(u) ==
    IF \E i \in DOMAIN u : u[i].settle = "rejected" THEN "rejected"
    ELSE IF \A i \in DOMAIN u : u[i].settle = "fulfilled" THEN "fulfilled"
    ELSE "pending"

\* --------------------------------------------------------- retryWithBackoff

\* Largest maxRetries passed explicitly to retryWithBackoff.
MaxRetriesBound == 3

\* the defaults of the options
DefaultMaxRetries == 5
DefaultInitialDelay == 1000
DefaultMaxDelay == 30000
DefaultOperationName == "Operation"

\* the options explored, key by key; a caller may leave any key out
InitialDelays == {1000, 4000}
MaxDelays == {3000, 8000}
OperationNames == {"Cloning u/r"}
OptionKeys == {"maxRetries", "initialDelay", "maxDelay", "operationName"}

\* the option objects explored: the keys given are all of them, none of them,
\* or all but one
OptionObjects ==
    LET full == { <<r, i, m, o>> : r \in (-1)..MaxRetriesBound, i \in InitialDelays,
                                   m \in MaxDelays, o \in OperationNames }
        object(t, keys) ==
            [k \in keys |-> CASE k = "maxRetries" -> t[1]
                              [] k = "initialDelay" -> t[2]
                              [] k = "maxDelay" -> t[3]
                              [] OTHER -> t[4]]
    IN { object(t, keys) :
            t \in full,
            keys \in {{}, OptionKeys} \cup {OptionKeys \ {k} : k \in OptionKeys} }

\* the errors the operation may fail with, and the values it may resolve to
FnErrors == {[message |-> "ETIMEDOUT"], [message |-> "exit code: 128"]}
FnValues == {"r1", "r2"}

\* the destructuring of options with its defaults
withDefaults(opts) ==
    [maxRetries |-> IF Has(opts, "maxRetries") THEN opts.maxRetries ELSE DefaultMaxRetries,
     initialDelay |-> IF Has(opts, "initialDelay") THEN opts.initialDelay
                      ELSE DefaultInitialDelay,
     maxDelay |-> IF Has(opts, "maxDelay") THEN opts.maxDelay ELSE DefaultMaxDelay,
     operationName |-> IF Has(opts, "operationName") THEN opts.operationName
                       ELSE DefaultOperationName]

\* (variant) the loop stops one attempt early
loopConditionStrict(attempt, maxRetries) == attempt < maxRetries

\* the loop condition: attempt <= maxRetries
loopCondition(attempt, maxRetries) == attempt <= maxRetries

\* (variant) the test for the last attempt is missing
isLastAttemptNever(attempt, maxRetries) == FALSE

\* the test in the catch block: attempt === maxRetries
isLastAttempt(attempt, maxRetries) == attempt = maxRetries

\* the catch block: lastError = error
catchError(lastError, error) == error

\* Math.pow(2, k) for an integer k >= 0
RECURSIVE Pow2(_)
Pow2(k) == IF k <= 0 THEN 1 ELSE 2 * Pow2(k - 1)

\* (variant) the delay is not capped
backoffDelayUncapped(initialDelay, attempt, maxDelay) == initialDelay * Pow2(attempt)

\* delay = Math.min(initialDelay * Math.pow(2, attempt), maxDelay)
backoffDelay(initialDelay, attempt, maxDelay) ==
    Min(initialDelay * Pow2(attempt), maxDelay)

\* (variant) the result of the operation is awaited but not returned
afterResolveFallThrough(value) == [kind |-> "fallthrough", value |-> value]

\* return await fn(): the value the operation resolves to is returned
afterResolve(value) == Return(value)

\* (variant) the notice does not name the operation
exhaustedNoticeUnnamed(operationName, maxRetries) ==
    [level |-> "error", operationName |-> DefaultOperationName, attempts |-> maxRetries + 1]

\* console.error(`${operationName} failed after ${maxRetries + 1} attempts`)
exhaustedNotice(operationName, maxRetries) ==
    [level |-> "error", operationName |-> operationName, attempts |-> maxRetries + 1]

\* ------------------------------------------------------------ repository.mjs

\* maxRetries of the options cloneRepository passes to retryWithBackoff
CloneMaxRetries == 5

\* the options cloneRepository passes to retryWithBackoff
CloneOptions ==
    [maxRetries |-> CloneMaxRetries, initialDelay |-> 1000, maxDelay |-> 30000,
     operationName |-> "Cloning u/r"]

\* an async function goes on after an await
Continue == [kind |-> "continue", value |-> null]

\* getCurrentGitHubUser: the login `gh api user` prints, or a new Error when
\* the command fails
getCurrentGitHubUser(cmdOk) ==
    IF cmdOk THEN Return("u")
    ELSE Throw("Could not get current GitHub user. Please check gh authentication.")

\* hasFork: the repository is among the forks `gh repo list` prints; false
\* when the command fails
hasFork(cmdOk, listed) == cmdOk /\ listed

\* createFork: true when `gh repo fork` succeeds, false when it fails
createFork(cmdOk) == cmdOk

\* (variant) cloneRepository without its try/catch
cloneRepositoryRethrows(outcome) ==
    IF outcome.kind = "return" THEN Return(TRUE) ELSE Throw("clone failed")

\* cloneRepository after its await of retryWithBackoff: true when the retrier
\* returned, false (from the catch block) when it threw
cloneRepositoryAfter(outcome) ==
    IF outcome.kind = "return" THEN Return(TRUE) ELSE Return(FALSE)

\* configureUpstream: `remote get-url upstream` only selects between set-url
\* and add; the result is whether that second command succeeded
configureUpstream(hasUpstream, writeOk) == writeOk

\* the upstream URLs `remote get-url upstream` may print: none (the command
\* failed), the expected one, another one
UpstreamUrls == {"", "https://github.com/o/r.git", "https://github.com/x/r.git"}
ExpectedUpstream == "https://github.com/o/r.git"

\* updateUpstreamRemote: nothing to do when the URL is the expected one,
\* otherwise the result is whether set-url / add succeeded
updateUpstreamRemote(currentUpstream, writeOk) ==
    IF currentUpstream # ExpectedUpstream THEN writeOk ELSE TRUE

\* fetchLatestBranches: true when `git fetch --all` succeeds
fetchLatestBranches(cmdOk) == cmdOk

\* ensureRepoExists after the await of getCurrentGitHubUser: there is no
\* try/catch around it, an exception leaves ensureRepoExists
afterGetUser(outcome) == IF outcome.kind = "throw" THEN outcome ELSE Continue

\* if (!created) return false
afterCreateFork(created) == IF ~created THEN Return(FALSE) ELSE Continue

\* (variant) the result of cloneRepository is not looked at
afterCloneUnchecked(cloned) ==
    IF cloned.kind = "throw" THEN cloned ELSE Continue

\* if (!cloned) return false; an exception of cloneRepository would leave
\* ensureRepoExists
afterClone(cloned) ==
    IF cloned.kind = "throw" THEN cloned
    ELSE IF ~cloned.value THEN Return(FALSE)
    ELSE Continue

\* if (!configured) return false
afterConfigure(configured) == IF ~configured THEN Return(FALSE) ELSE Continue

\* (variant) a failed fetch makes ensureRepoExists fail
afterFetchChecked(fetched) == Return(fetched)

\* await fetchLatestBranches(repoDir); return true
afterFetch(fetched) == Return(TRUE)

\* -------------------------------------------------------------------- state

VARIABLES
    pc,               \* the caller: "idle", "executing", "returned", "threw"
    entry,            \* the exported function called: "executeTasks" or "executeWithConcurrency"
    outputDirExists,  \* executeTasks: fs.pathExists(outputDir)
    listing,          \* executeTasks: allItems, what fs.readdir returned
    taskFiles,        \* the task files handed to executeWithConcurrency
    maxJobs,          \* the concurrency limit
    unit,             \* per task file: where its limiter callback / runTask stands
    queue,            \* p-limit: the waiting units, by index
    activeCount,      \* p-limit: the units running
    successful,       \* executeWithConcurrency: let successful
    failed,           \* executeWithConcurrency: let failed
    ewcResult,        \* what executeWithConcurrency returned
    summary,          \* what executeTasks returned
    thrown,           \* the message of the error the call threw
    claudePath,       \* the module-level cache of the detected CLI path
    detectCalls,      \* how often detectClaudePath was called in this process
    invocation,       \* how many executeWithConcurrency calls were made
    previous,         \* the counters the previous call returned
    retryPc,          \* retryWithBackoff: "idle", "calling", "waiting", "returned", "threw"
    options,          \* retryWithBackoff: the options object it was called with
    attempt,          \* retryWithBackoff: the loop variable
    lastError,        \* retryWithBackoff: let lastError
    fnCalls,          \* how often the operation was called
    waits,            \* the delays of the timers set, in order
    failures,         \* the errors the operation failed with, in order
    resolved,         \* the values the operation resolved to, in order
    retryResult,      \* what retryWithBackoff returned
    retryThrown,      \* what retryWithBackoff threw
    notice,           \* the last console.error line, taken apart
    repoEntry,        \* the exported function of repository.mjs that was called
    repoPc,           \* the helper that function awaits, or "idle", "returned", "threw"
    caller,           \* who awaits retryWithBackoff: "none" or "cloneRepository"
    steps,            \* the helpers that have settled, in order, with their results
    cloneOutcome,     \* how cloneRepository ended
    repoOutcome       \* how the called function ended

vars == <<pc, entry, outputDirExists, listing, taskFiles, maxJobs, unit, queue,
          activeCount, successful, failed, ewcResult, summary, thrown, claudePath,
          detectCalls, invocation, previous, retryPc, options, attempt, lastError,
          fnCalls, waits, failures, resolved, retryResult, retryThrown, notice,
          repoEntry, repoPc, caller, steps, cloneOutcome, repoOutcome>>

\* the state of the task execution engine, and the state of the retrier
executorVars == <<pc, entry, outputDirExists, listing, taskFiles, maxJobs, unit, queue,
                  activeCount, successful, failed, ewcResult, summary, thrown,
                  claudePath, detectCalls, invocation, previous>>

retryVars == <<retryPc, options, attempt, lastError, fnCalls, waits, failures, resolved,
               retryResult, retryThrown, notice>>

repoVars == <<repoEntry, repoPc, caller, steps, cloneOutcome, repoOutcome>>

callVars == <<entry, outputDirExists, listing, taskFiles, maxJobs, invocation, previous>>

Units == DOMAIN unit

\* a unit whose limiter callback has not run yet
FreshUnit ==
    [pc |-> "queued", starts |-> 0, spawns |-> 0, exitCode |-> -1,
     fault |-> "none", cmdFound |-> TRUE, settle |-> "pending", result |-> emptyObject,
     rank |-> 0]

\* runTask from its call to its first await: with an empty cache it calls
\* detectClaudePath, otherwise it goes on to extractRepoPaths
beginRunTask(u, cache) ==
    [u EXCEPT !.pc = IF cache = null THEN "detect" ELSE "extract",
              !.starts = @ + 1]

Init ==
    /\ pc = "idle"
    /\ entry = null
    /\ outputDirExists = TRUE
    /\ listing = <<>>
    /\ taskFiles = <<>>
    /\ maxJobs = 1
    /\ unit = <<>>
    /\ queue = <<>>
    /\ activeCount = 0
    /\ successful = 0
    /\ failed = 0
    /\ ewcResult = emptyObject
    /\ summary = emptyObject
    /\ thrown = null
    /\ claudePath = null
    /\ detectCalls = 0
    /\ invocation = 0
    /\ previous = emptyObject
    /\ retryPc = "idle"
    /\ options = emptyObject
    /\ attempt = 0
    /\ lastError = emptyObject
    /\ fnCalls = 0
    /\ waits = <<>>
    /\ failures = <<>>
    /\ resolved = <<>>
    /\ retryResult = null
    /\ retryThrown = emptyObject
    /\ notice = emptyObject
    /\ repoEntry = null
    /\ repoPc = "idle"
    /\ caller = "none"
    /\ steps = <<>>
    /\ cloneOutcome = emptyObject
    /\ repoOutcome = emptyObject

\* --------------------------------------------------- executeWithConcurrency

\* (variant) the counters live outside the function and are never reset
countersCarriedOver == [successful |-> successful, failed |-> failed]

\* let successful = 0; let failed = 0: every call counts from zero
newCounters == [successful |-> 0, failed |-> 0]

\* the return statement of executeWithConcurrency
ewcReturn(s, f, u) == [successful |-> s, failed |-> f, results |-> promiseAllValues(u)]

\* the return statement of executeTasks
executeTasksReturn(result, files) ==
    [successful |-> result.successful, failed |-> result.failed, totalTasks |-> Len(files)]

\* await Promise.all(taskPromises) and the rest of the call, once the units
\* stand at u with counters s and f: the call returns when every promise is
\* fulfilled and throws when one is rejected
AwaitAll(u, s, f, files, via) ==
    \E all \in {promiseAllState(u)} :
        IF all = "fulfilled"
        THEN \E result \in {ewcReturn(s, f, u)} :
             /\ pc' = "returned"
             /\ ewcResult' = result
             /\ summary' = IF via = "executeTasks"
                           THEN executeTasksReturn(result, files)
                           ELSE emptyObject
             /\ thrown' = null
        ELSE IF all = "rejected"
        THEN /\ pc' = "threw"
             /\ ewcResult' = emptyObject
             /\ summary' = emptyObject
             /\ thrown' = u[CHOOSE i \in DOMAIN u : u[i].settle = "rejected"].result.error
        ELSE /\ pc' = "executing"
             /\ ewcResult' = emptyObject
             /\ summary' = emptyObject
             /\ thrown' = null

\* executeWithConcurrency(files, jobs): a new limiter and new counters, one
\* limit() call per task file, then the await of Promise.all
Execute(files, jobs, via) ==
    LET n == Len(files)
        started == pLimitStarted(n, jobs)
        u == [i \in 1..n |-> IF i \in started
                             THEN beginRunTask(FreshUnit, claudePath)
                             ELSE FreshUnit]
    IN /\ taskFiles' = files
       /\ maxJobs' = jobs
       /\ entry' = via
       /\ unit' = u
       /\ queue' = pLimitQueued(n, jobs)
       /\ activeCount' = Cardinality(started)
       /\ successful' = newCounters.successful
       /\ failed' = newCounters.failed
       /\ detectCalls' = detectCalls +
                            (IF claudePath = null THEN Cardinality(started) ELSE 0)
       /\ invocation' = invocation + 1
       /\ previous' = IF pc = "returned"
                      THEN [successful |-> ewcResult.successful, failed |-> ewcResult.failed]
                      ELSE emptyObject
       /\ AwaitAll(u, newCounters.successful, newCounters.failed, files, via)
       /\ UNCHANGED <<claudePath, retryVars, repoVars>>

\* runTask of unit i ends with `outcome`; u is unit with i's bookkeeping done.
\* In the same turn of the event loop: the limiter callback counts the result,
\* p-limit's next() frees the slot and starts the head of the queue, and
\* Promise.all is settled if this was the last unit (or a rejection).
Settle(i, u, outcome) ==
    \E cb \in {limitCallback(outcome)} :
    \E more \in {queue # <<>>} :
    \E j \in {IF more THEN pLimitDequeue(queue) ELSE 0} :
    \E u2 \in {LET u1 == [u EXCEPT ![i].pc = "done",
                                   ![i].settle = cb.settle,
                                   ![i].result = cb.value,
                                   ![i].rank = 1 + Cardinality({k \in DOMAIN u : u[k].pc = "done"})]
               IN IF more THEN [u1 EXCEPT ![j] = beginRunTask(@, claudePath)] ELSE u1} :
       /\ unit' = u2
       /\ successful' = successful + cb.successful
       /\ failed' = failed + cb.failed
       /\ queue' = IF more THEN SelectSeq(queue, LAMBDA k : k # j) ELSE queue
       /\ activeCount' = IF more THEN activeCount ELSE activeCount - 1
       /\ detectCalls' = detectCalls + (IF more /\ claudePath = null THEN 1 ELSE 0)
       /\ IF pc = "executing"
          THEN AwaitAll(u2, successful + cb.successful, failed + cb.failed, taskFiles, entry)
          ELSE UNCHANGED <<pc, ewcResult, summary, thrown>>
       /\ UNCHANGED <<claudePath, callVars, retryVars, repoVars>>

\* ------------------------------------------------------------------ actions

\* executeTasks(outputDir, config) up to its await of executeWithConcurrency
ExecuteTasks ==
    /\ pc = "idle"
    /\ \E exists \in BOOLEAN, allItems \in Listings, jobs \in 1..MaxJobsBound :
        /\ outputDirExists' = exists
        /\ listing' = IF exists THEN allItems ELSE <<>>
        /\ IF ~exists
           THEN /\ pc' = "threw"
                /\ thrown' = "directory not found. Please ensure task generation was successful"
                /\ entry' = "executeTasks"
                /\ UNCHANGED <<taskFiles, maxJobs, unit, queue, activeCount, successful,
                               failed, ewcResult, summary, claudePath, detectCalls,
                               invocation, previous, retryVars,
                               repoVars>>
           ELSE IF noTaskFiles(sortedTaskFiles(allItems))
           THEN /\ pc' = "threw"
                /\ thrown' = "No task.md files found. Please ensure task generation was successful"
                /\ entry' = "executeTasks"
                /\ UNCHANGED <<taskFiles, maxJobs, unit, queue, activeCount, successful,
                               failed, ewcResult, summary, claudePath, detectCalls,
                               invocation, previous, retryVars,
                               repoVars>>
           ELSE Execute(sortedTaskFiles(allItems), jobs, "executeTasks")

\* executeWithConcurrency(taskFiles, maxJobs) called by itself
ExecuteWithConcurrency ==
    /\ pc = "idle"
    /\ \E n \in 0..MaxUnits, jobs \in 1..MaxJobsBound :
        /\ Execute(DirectList(n), jobs, "executeWithConcurrency")
        /\ UNCHANGED <<outputDirExists, listing>>

\* executeWithConcurrency called again, in the same process, on the same list
ReExecute ==
    /\ pc = "returned"
    /\ invocation < MaxInvocations
    /\ Execute(taskFiles, maxJobs, "executeWithConcurrency")
    /\ UNCHANGED <<outputDirExists, listing>>

\* detectClaudePath() of unit i resolves: the cache is written and runTask
\* goes on to extractRepoPaths
DetectDone(i) ==
    /\ i \in Units
    /\ unit[i].pc = "detect"
    /\ \E world \in FsWorlds : claudePath' = detectClaudePath(world)
    /\ unit' = [unit EXCEPT ![i].pc = "extract"]
    /\ UNCHANGED <<pc, callVars, retryVars, repoVars, queue, activeCount, successful, failed, ewcResult,
                   summary, thrown, detectCalls>>

\* extractRepoPaths(taskFile) of unit i settles
ExtractDone(i) ==
    /\ i \in Units
    /\ unit[i].pc = "extract"
    /\ \E file \in TaskFileStates :
        LET r == extractRepoPaths(file)
        IN IF r.threw
           THEN Settle(i, [unit EXCEPT ![i].fault = IF file.readable THEN "taskFileMalformed"
                                                     ELSE "taskFileUnreadable"],
                       runTaskCatch(taskFiles[i], r.message))
           ELSE /\ unit' = [unit EXCEPT ![i].pc = "pathExists"]
                /\ UNCHANGED <<pc, callVars, retryVars, repoVars, queue, activeCount, successful, failed,
                               ewcResult, summary, thrown, claudePath, detectCalls>>

\* fs.pathExists(repoCodePath) of unit i resolves
PathExistsDone(i) ==
    /\ i \in Units
    /\ unit[i].pc = "pathExists"
    /\ \E exists \in BOOLEAN :
        LET r == checkRepoCode(exists)
            u == [unit EXCEPT ![i].fault = IF exists THEN @ ELSE "repoDirMissing"]
        IN IF r.threw
           THEN Settle(i, u, runTaskCatch(taskFiles[i], r.message))
           ELSE
             /\ unit' = [u EXCEPT ![i].pc = "readFile"]
             /\ UNCHANGED <<pc, callVars, retryVars, repoVars, queue, activeCount, successful, failed,
                            ewcResult, summary, thrown, claudePath, detectCalls>>

\* fs.readFile(taskFile) of unit i settles
ReadFileDone(i) ==
    /\ i \in Units
    /\ unit[i].pc = "readFile"
    /\ \E ok \in BOOLEAN :
        IF ~ok
        THEN Settle(i, [unit EXCEPT ![i].fault = "taskFileUnreadable"],
                    runTaskCatch(taskFiles[i], "ENOENT: no such file or directory"))
        ELSE /\ unit' = [unit EXCEPT ![i].pc = "ensureDir"]
             /\ UNCHANGED <<pc, callVars, retryVars, repoVars, queue, activeCount, successful, failed,
                            ewcResult, summary, thrown, claudePath, detectCalls>>

\* fs.ensureDir(path.dirname(logFile)) of unit i settles; on success the agent
\* command is spawned with the cached path.  The fallback 'claude' may or may
\* not be found by the shell.
EnsureDirDone(i) ==
    /\ i \in Units
    /\ unit[i].pc = "ensureDir"
    /\ \E ok \in BOOLEAN, found \in BOOLEAN :
        IF ~ok
        THEN /\ found
             /\ Settle(i, [unit EXCEPT ![i].fault = "logDirFailed"],
                       runTaskCatch(taskFiles[i], "EACCES: permission denied"))
        ELSE /\ claudePath # "claude" => found
             /\ unit' = [unit EXCEPT ![i].pc = "spawned", ![i].spawns = @ + 1,
                                     ![i].cmdFound = found]
             /\ UNCHANGED <<pc, callVars, retryVars, repoVars, queue, activeCount, successful, failed,
                            ewcResult, summary, thrown, claudePath, detectCalls>>

\* the agent command of unit i exits
AgentExit(i) ==
    /\ i \in Units
    /\ unit[i].pc = "spawned"
    /\ \E code \in ExitCodes :
        /\ code = 127 <=> ~unit[i].cmdFound
        /\ Settle(i, [unit EXCEPT ![i].exitCode = code],
                  runTaskAfterExit(taskFiles[i], logFileOf(taskFiles[i]), code))

Next ==
    \/ ExecuteTasks
    \/ ExecuteWithConcurrency
    \/ ReExecute
    \/ \E i \in Units : DetectDone(i)
    \/ \E i \in Units : ExtractDone(i)
    \/ \E i \in Units : PathExistsDone(i)
    \/ \E i \in Units : ReadFileDone(i)
    \/ \E i \in Units : EnsureDirDone(i)
    \/ \E i \in Units : AgentExit(i)

Spec == Init /\ [][Next]_vars

\* the units the bounds allow
UnitIds == 1..(IF MaxUnits >= MaxEntries THEN MaxUnits ELSE MaxEntries)

\* one awaited operation of some unit completes
UnitStep ==
    \E i \in UnitIds :
        \/ DetectDone(i)
        \/ ExtractDone(i)
        \/ PathExistsDone(i)
        \/ ReadFileDone(i)
        \/ EnsureDirDone(i)
        \/ AgentExit(i)

\* Every asynchronous operation a unit waits for completes: the file-system
\* calls settle, and (the assumption of the liveness claims) every agent
\* process exits.  Calls of the exported functions are not forced.
Fairness == WF_vars(UnitStep)

\* one call of executeWithConcurrency in a fresh process, and the awaited
\* operations of its units
NextOneCall ==
    \/ ExecuteWithConcurrency
    \/ UnitStep

\* a single call whose awaited operations all complete
FairSpec == Init /\ [][NextOneCall]_vars /\ Fairness

\* --------------------------------------------------- an agent that hangs

\* the agent command of unit i never exits: nothing bounds the await of the
\* command, so runTask of unit i stays at it and its promise stays pending
AgentHangs(i) ==
    /\ i \in Units
    /\ unit[i].pc = "spawned"
    /\ unit' = [unit EXCEPT ![i].pc = "hung"]
    /\ UNCHANGED <<pc, callVars, retryVars, repoVars, queue, activeCount, successful, failed,
                   ewcResult, summary, thrown, claudePath, detectCalls>>

\* one call of executeWithConcurrency in which agents may hang
NextWithHang ==
    \/ ExecuteWithConcurrency
    \/ UnitStep
    \/ \E i \in UnitIds : AgentHangs(i)

\* ... and in which every other awaited operation completes
HangSpec == Init /\ [][NextWithHang]_vars /\ Fairness

\* ------------------------------------- the caller of retryWithBackoff goes on

\* a helper of repository.mjs has settled with result ok
Step(op, ok) == [op |-> op, ok |-> ok]

\* the called function after an await: at `step` it goes on to await `next`,
\* returns, or is left by an exception
Proceed(step, next) ==
    IF step.kind = "continue"
    THEN /\ repoPc' = next
         /\ repoOutcome' = repoOutcome
    ELSE /\ repoPc' = (IF step.kind = "return" THEN "returned" ELSE "threw")
         /\ repoOutcome' = step

\* cloneRepository ends with `out`; when ensureRepoExists called it,
\* ensureRepoExists tests the result and goes on to configureUpstream
CloneSettled(out) ==
    /\ cloneOutcome' = out
    /\ steps' = Append(steps, Step("cloneRepository", out.kind = "return" /\ out.value))
    /\ IF repoEntry = "cloneRepository"
       THEN Proceed(out, "returned")
       ELSE Proceed(afterClone(out), "configureUpstream")
    /\ UNCHANGED <<repoEntry, caller>>

\* what follows, in the same turn of the event loop, a step of
\* retryWithBackoff: when it has returned or thrown, its caller goes on
Resume ==
    IF caller = "cloneRepository" /\ retryPc' \in {"returned", "threw"}
    THEN CloneSettled(cloneRepositoryAfter(IF retryPc' = "returned"
                                           THEN Return(retryResult')
                                           ELSE Throw(retryThrown')))
    ELSE UNCHANGED repoVars

\* --------------------------------------------- retryWithBackoff: the actions

\* the head of the for loop with attempt = k under the options o: the
\* operation is called when the loop condition holds; otherwise the loop is
\* left and the statement after it throws err (lastError)
Iterate(k, o, err) ==
    /\ attempt' = k
    /\ IF loopCondition(k, o.maxRetries)
       THEN /\ retryPc' = "calling"
            /\ fnCalls' = fnCalls + 1
            /\ retryThrown' = retryThrown
       ELSE /\ retryPc' = "threw"
            /\ fnCalls' = fnCalls
            /\ retryThrown' = err

\* retryWithBackoff(fn, options) up to its first await
RetryWithBackoff ==
    /\ retryPc = "idle"
    /\ \E opts \in OptionObjects :
        /\ options' = opts
        /\ Iterate(0, withDefaults(opts), lastError)
    /\ UNCHANGED <<lastError, waits, failures, resolved, retryResult, notice,
                   executorVars, repoVars>>

\* the operation resolves: its value is returned
FnResolves ==
    /\ retryPc = "calling"
    /\ \E v \in FnValues :
        /\ resolved' = Append(resolved, v)
        /\ \E step \in {afterResolve(v)} :
              IF step.kind = "return"
              THEN /\ retryPc' = "returned"
                   /\ retryResult' = step.value
                   /\ UNCHANGED <<attempt, fnCalls, retryThrown>>
              ELSE /\ Iterate(attempt + 1, withDefaults(options), lastError)
                   /\ retryResult' = retryResult
    /\ UNCHANGED <<options, lastError, waits, failures, notice, executorVars>>
    /\ Resume

\* the operation rejects: the catch block records the error, then throws it
\* after the last attempt or sets the timer of the backoff delay
FnRejects ==
    /\ retryPc = "calling"
    /\ \E error \in FnErrors :
        \E o \in {withDefaults(options)} :
        \E caught \in {catchError(lastError, error)} :
           /\ failures' = Append(failures, error)
           /\ lastError' = caught
           /\ IF isLastAttempt(attempt, o.maxRetries)
              THEN /\ notice' = exhaustedNotice(o.operationName, o.maxRetries)
                   /\ retryPc' = "threw"
                   /\ retryThrown' = caught
                   /\ waits' = waits
              ELSE /\ waits' = Append(waits, backoffDelay(o.initialDelay, attempt, o.maxDelay))
                   /\ retryPc' = "waiting"
                   /\ UNCHANGED <<notice, retryThrown>>
    /\ UNCHANGED <<options, attempt, fnCalls, resolved, retryResult, executorVars>>
    /\ Resume

\* the timer of the backoff delay fires: attempt++ and the next iteration
TimerFires ==
    /\ retryPc = "waiting"
    /\ Iterate(attempt + 1, withDefaults(options), lastError)
    /\ UNCHANGED <<options, lastError, waits, failures, resolved, retryResult, notice,
                   executorVars>>
    /\ Resume

RetryNext ==
    \/ RetryWithBackoff
    \/ FnResolves
    \/ FnRejects
    \/ TimerFires

\* one call of retryWithBackoff
RetrySpec == Init /\ [][RetryNext]_vars

\* the options in force
policy == withDefaults(options)

\* ------------------------- cloneRepository and ensureRepoExists: the actions

\* cloneRepository up to its await: retryWithBackoff is called with the clone
\* options and, CloneMaxRetries being positive, calls `git clone --bare`
BeginClone ==
    /\ caller' = "cloneRepository"
    /\ repoPc' = "cloneRepository"
    /\ options' = CloneOptions
    /\ Iterate(0, withDefaults(CloneOptions), lastError)
    /\ UNCHANGED <<lastError, waits, failures, resolved, retryResult, notice>>

\* cloneRepository(username, repo, repoDir) called by itself
CloneRepository ==
    /\ repoPc = "idle"
    /\ repoEntry' = "cloneRepository"
    /\ BeginClone
    /\ UNCHANGED <<steps, cloneOutcome, repoOutcome, executorVars>>

\* ensureRepoExists(org, repo, workspaceDir) up to its await of fs.pathExists
EnsureRepoExists ==
    /\ repoPc = "idle"
    /\ repoEntry' = "ensureRepoExists"
    /\ repoPc' = "fs.pathExists"
    /\ UNCHANGED <<caller, steps, cloneOutcome, repoOutcome, retryVars, executorVars>>

\* fs.pathExists(repoDir) resolves
RepoPathExistsDone ==
    /\ repoPc = "fs.pathExists"
    /\ \E exists \in BOOLEAN :
        /\ steps' = Append(steps, Step("fs.pathExists", exists))
        /\ repoPc' = IF exists THEN "updateUpstreamRemote" ELSE "getCurrentGitHubUser"
    /\ UNCHANGED <<repoEntry, caller, cloneOutcome, repoOutcome, retryVars, executorVars>>

\* updateUpstreamRemote(repoDir, org, repo) settles; its result is not used
UpdateUpstreamDone ==
    /\ repoPc = "updateUpstreamRemote"
    /\ \E currentUpstream \in UpstreamUrls, writeOk \in BOOLEAN :
        steps' = Append(steps, Step("updateUpstreamRemote",
                                    updateUpstreamRemote(currentUpstream, writeOk)))
    /\ repoPc' = "fetchLatestBranches"
    /\ UNCHANGED <<repoEntry, caller, cloneOutcome, repoOutcome, retryVars, executorVars>>

\* getCurrentGitHubUser() settles
GetUserDone ==
    /\ repoPc = "getCurrentGitHubUser"
    /\ \E cmdOk \in BOOLEAN :
        \E out \in {getCurrentGitHubUser(cmdOk)} :
           /\ steps' = Append(steps, Step("getCurrentGitHubUser", out.kind = "return"))
           /\ Proceed(afterGetUser(out), "hasFork")
    /\ UNCHANGED <<repoEntry, caller, cloneOutcome, retryVars, executorVars>>

\* hasFork(currentUser, repo) settles: with a fork cloneRepository is called,
\* without one createFork
HasForkDone ==
    /\ repoPc = "hasFork"
    /\ \E cmdOk \in BOOLEAN, listed \in BOOLEAN :
        \E forkExists \in {hasFork(cmdOk, listed)} :
           /\ steps' = Append(steps, Step("hasFork", forkExists))
           /\ IF forkExists
              THEN BeginClone
              ELSE /\ repoPc' = "createFork"
                   /\ UNCHANGED <<caller, retryVars>>
    /\ UNCHANGED <<repoEntry, cloneOutcome, repoOutcome, executorVars>>

\* createFork(org, repo) settles
CreateForkDone ==
    /\ repoPc = "createFork"
    /\ \E cmdOk \in BOOLEAN :
        \E created \in {createFork(cmdOk)} :
        \E step \in {afterCreateFork(created)} :
           /\ steps' = Append(steps, Step("createFork", created))
           /\ IF step.kind = "continue"
              THEN /\ BeginClone
                   /\ repoOutcome' = repoOutcome
              ELSE /\ Proceed(step, "cloneRepository")
                   /\ UNCHANGED <<caller, retryVars>>
    /\ UNCHANGED <<repoEntry, cloneOutcome, executorVars>>

\* configureUpstream(repoDir, org, repo) settles
ConfigureUpstreamDone ==
    /\ repoPc = "configureUpstream"
    /\ \E hasUpstream \in BOOLEAN, writeOk \in BOOLEAN :
        \E configured \in {configureUpstream(hasUpstream, writeOk)} :
           /\ steps' = Append(steps, Step("configureUpstream", configured))
           /\ Proceed(afterConfigure(configured), "fetchLatestBranches")
    /\ UNCHANGED <<repoEntry, caller, cloneOutcome, retryVars, executorVars>>

\* fetchLatestBranches(repoDir) settles, on either path
FetchDone ==
    /\ repoPc = "fetchLatestBranches"
    /\ \E cmdOk \in BOOLEAN :
        \E fetched \in {fetchLatestBranches(cmdOk)} :
           /\ steps' = Append(steps, Step("fetchLatestBranches", fetched))
           /\ Proceed(afterFetch(fetched), "returned")
    /\ UNCHANGED <<repoEntry, caller, cloneOutcome, retryVars, executorVars>>

RepoNext ==
    \/ CloneRepository
    \/ EnsureRepoExists
    \/ RepoPathExistsDone
    \/ UpdateUpstreamDone
    \/ GetUserDone
    \/ HasForkDone
    \/ CreateForkDone
    \/ FnResolves
    \/ FnRejects
    \/ TimerFires
    \/ ConfigureUpstreamDone
    \/ FetchDone

\* one call of cloneRepository or of ensureRepoExists
RepoSpec == Init /\ [][RepoNext]_vars

\* ------------------------------------------------------------------- claims

N == Len(taskFiles)

\* runTask of unit i has started and has not returned
InFlight(i) == unit[i].pc \notin {"queued", "done"}

\* unit i has ended with success = false: a precondition failed or its agent
\* process exited with a non-zero code
Failing(i) ==
    /\ unit[i].pc = "done"
    /\ unit[i].fault # "none" \/ unit[i].exitCode \notin {-1, 0}

\* C1: when executeWithConcurrency has returned, results holds exactly one
\* outcome per submitted task file and successful + failed is their number;
\* the summary of executeTasks has totalTasks = successful + failed.
C1_OutcomesSumToN ==
    pc = "returned" =>
        /\ Len(ewcResult.results) = N
        /\ \A i \in 1..N : Has(ewcResult.results[i], "success")
        /\ ewcResult.successful + ewcResult.failed = N
        /\ entry = "executeTasks" =>
              /\ summary.totalTasks = N
              /\ summary.totalTasks = summary.successful + summary.failed

\* executeTasks has returned for two units run side by side, one of which
\* succeeded and one of which failed
C1_Witness ==
    /\ pc = "returned"
    /\ entry = "executeTasks"
    /\ N = 2
    /\ maxJobs = 2
    /\ summary.successful = 1
    /\ summary.failed = 1

\* C2: at every moment at most maxJobs units are in flight (runTask started
\* and not yet returned).
C2_AtMostMaxJobsInFlight ==
    Cardinality({i \in Units : InFlight(i)}) <= maxJobs

\* two of three units are in flight under a limit of two while the third waits
C2_Witness ==
    /\ N = 3
    /\ maxJobs = 2
    /\ Cardinality({i \in Units : InFlight(i)}) = 2
    /\ unit[3].pc = "queued"

\* C3: with maxJobs = 1 a unit is started only when every unit submitted
\* before it has returned, so no two units are ever in flight together.
C3_SequentialWhenOneJob ==
    maxJobs = 1 =>
        /\ \A i, j \in Units : i < j /\ unit[j].pc # "queued" => unit[i].pc = "done"
        /\ Cardinality({i \in Units : InFlight(i)}) <= 1

\* sequential mode in the middle of three units: the first has returned, the
\* second runs its agent, the third waits
C3_Witness ==
    /\ maxJobs = 1
    /\ N = 3
    /\ unit[1].pc = "done"
    /\ unit[2].pc = "spawned"
    /\ unit[3].pc = "queued"

\* every unit of the call has reached its terminal outcome and the call has
\* returned its summary
AllReported ==
    /\ pc = "returned"
    /\ Len(ewcResult.results) = N
    /\ \A i \in Units : unit[i].pc = "done" /\ unit[i].starts = 1

\* a terminal outcome is the unit's own: it comes from the unit's own failed
\* precondition or from the exit of its own agent process, it is delivered as
\* a result, and it is a failure exactly when that unit itself failed
OwnOutcome ==
    \A i \in Units :
        unit[i].pc = "done" =>
            /\ unit[i].fault # "none" \/ unit[i].exitCode # -1
            /\ unit[i].starts = 1
            /\ unit[i].settle = "fulfilled"
            /\ Has(unit[i].result, "success")
            /\ unit[i].result.success <=> ~Failing(i)

\* C4: a failed unit neither cancels a unit in flight nor lets a queued unit
\* be skipped: once a unit has failed, and as long as awaited operations
\* complete, every unit is started once and reaches its own terminal outcome,
\* and only the units that failed themselves are marked failed.
C4_FailureIsolation ==
    /\ [](OwnOutcome)
    /\ (\E i \in Units : Failing(i)) ~> AllReported

\* three units under a limit of two: the first one failed first, by a non-zero
\* exit of its agent, and the two others went on to succeed
C4_Witness ==
    /\ AllReported
    /\ N = 3
    /\ maxJobs = 2
    /\ unit[1].exitCode = 1 /\ unit[1].rank = 1 /\ ~unit[1].result.success
    /\ unit[2].result.success
    /\ unit[3].result.success
    /\ ewcResult.failed = 1

\* C5: the results executeWithConcurrency returns are in submission order:
\* results[i] is the outcome of taskFiles[i].
C5_ResultsInSubmissionOrder ==
    pc = "returned" =>
        \A i \in 1..N :
            /\ ewcResult.results[i] = unit[i].result
            /\ ewcResult.results[i].taskName = taskNameOf(taskFiles[i])
            /\ Has(ewcResult.results[i], "logFile") =>
                  ewcResult.results[i].logFile = logFileOf(taskFiles[i])

\* the call has returned although a later unit finished before an earlier one
C5_Witness ==
    /\ pc = "returned"
    /\ maxJobs > 1
    /\ N >= 2
    /\ taskFiles[1] # taskFiles[2]
    /\ unit[2].rank < unit[1].rank

\* C6: executeWithConcurrency has returned only when no unit is queued or in
\* flight any more.
C6_ReturnsAfterAllUnits ==
    pc = "returned" =>
        /\ \A i \in Units : unit[i].pc = "done"
        /\ queue = <<>>
        /\ activeCount = 0

\* the call has returned for three units that ran under a limit of two
C6_Witness ==
    /\ pc = "returned"
    /\ N = 3
    /\ maxJobs = 2
    /\ \A i \in Units : unit[i].rank > 0

\* C7: a unit whose repository code directory was missing when runTask
\* checked it never spawns the agent and ends with success = false and a
\* non-empty error detail.
C7_MissingDirNoSpawn ==
    \A i \in Units :
        unit[i].fault = "repoDirMissing" =>
            /\ unit[i].spawns = 0
            /\ unit[i].pc = "done"
            /\ unit[i].settle = "fulfilled"
            /\ ~unit[i].result.success
            /\ Has(unit[i].result, "error")
            /\ unit[i].result.error # ""

\* a unit found its repository code directory missing
C7_Witness ==
    \E i \in Units : unit[i].fault = "repoDirMissing" /\ unit[i].pc = "done"

\* C8: once the agent process has been spawned its exit code decides the
\* outcome: 0 gives success = true without error detail, any other code gives
\* success = false without error detail and with the log file path.
C8_ExitCodeDecides ==
    \A i \in Units :
        unit[i].spawns > 0 /\ unit[i].pc = "done" =>
            /\ unit[i].settle = "fulfilled"
            /\ ~Has(unit[i].result, "error")
            /\ Has(unit[i].result, "logFile")
            /\ unit[i].result.logFile = logFileOf(taskFiles[i])
            /\ unit[i].result.success <=> unit[i].exitCode = 0

\* one agent has exited with 0 and another with 1
C8_Witness ==
    \E i, j \in Units :
        /\ unit[i].pc = "done" /\ unit[i].spawns = 1 /\ unit[i].exitCode = 0
        /\ unit[j].pc = "done" /\ unit[j].spawns = 1 /\ unit[j].exitCode = 1

\* the agent executable of unit i could not be located: detection fell back
\* to 'claude' and the shell did not find that command
AgentUnresolved(i) == unit[i].spawns > 0 /\ ~unit[i].cmdFound

\* C9: a unit whose task file cannot be read or parsed, or whose agent
\* executable cannot be located, ends with success = false and an error
\* detail, and no process is spawned for it.
C9_PreconditionFailuresCarryDetail ==
    \A i \in Units :
        /\ unit[i].fault \in {"taskFileUnreadable", "taskFileMalformed"} =>
              /\ unit[i].pc = "done"
              /\ unit[i].spawns = 0
              /\ ~unit[i].result.success
              /\ Has(unit[i].result, "error")
        /\ AgentUnresolved(i) /\ unit[i].pc = "done" =>
              /\ ~unit[i].result.success
              /\ Has(unit[i].result, "error")

\* C10: no failure inside a unit makes the call throw: every unit that has
\* ended delivered a result (a failed one when the unit failed), a call that
\* started units never throws, and it returns a result for every unit.
C10_UnitFailuresNeverThrow ==
    /\ \A i \in Units :
          unit[i].pc = "done" =>
              /\ unit[i].settle = "fulfilled"
              /\ Failing(i) => ~unit[i].result.success
    /\ invocation > 0 => pc # "threw"
    /\ pc = "returned" => Len(ewcResult.results) = N

\* the call has returned although one unit failed a precondition and another
\* unit's agent exited with a non-zero code
C10_Witness ==
    /\ pc = "returned"
    /\ \E i, j \in Units :
          /\ unit[i].fault # "none"
          /\ unit[j].exitCode = 127

\* the positions of `results` whose outcome has success = true
Succeeded(results) ==
    {i \in DOMAIN results : Has(results[i], "success") /\ results[i].success}

\* C11: at return of executeWithConcurrency, successful is the number of
\* outcomes in results with success = true and failed is the number of all
\* other outcomes; a unit that failed a precondition and never spawned a
\* process is one of the failed.
C11_CountersMatchResults ==
    pc = "returned" =>
        /\ ewcResult.successful = Cardinality(Succeeded(ewcResult.results))
        /\ ewcResult.failed =
              Cardinality(DOMAIN ewcResult.results \ Succeeded(ewcResult.results))
        /\ \A i \in Units :
              unit[i].spawns = 0 => i \notin Succeeded(ewcResult.results)

\* the call has returned for three units: one never spawned a process, one
\* agent exited with a non-zero code, one succeeded
C11_Witness ==
    /\ pc = "returned"
    /\ N = 3
    /\ \E i, j, k \in Units :
          /\ unit[i].spawns = 0 /\ unit[i].fault # "none"
          /\ unit[j].spawns = 1 /\ unit[j].exitCode = 1
          /\ unit[k].spawns = 1 /\ unit[k].exitCode = 0
    /\ ewcResult.successful = 1
    /\ ewcResult.failed = 2

\* C12: the agent executable location is resolved once per process lifetime:
\* over all runTask invocations of the process, units started side by side
\* on an empty cache included, detectClaudePath is called at most once.
C12_DetectedAtMostOnce ==
    detectCalls <= 1

\* C13: every submitted task file is claimed exactly once per call: runTask is
\* never started twice for a unit, a unit waits in the queue exactly as long
\* as it has not been started, and at return every unit has been started once.
C13_EachUnitStartedOnce ==
    /\ \A i \in Units :
          /\ unit[i].starts <= 1
          /\ unit[i].starts = 0 <=> unit[i].pc = "queued"
          /\ unit[i].starts = 0 <=> \E k \in DOMAIN queue : queue[k] = i
    /\ \A k, l \in DOMAIN queue : queue[k] = queue[l] => k = l
    /\ pc = "returned" => \A i \in Units : unit[i].starts = 1

\* three units under a limit of two have all run once, the slot of the second
\* unit having been released before the slot of the first
C13_Witness ==
    /\ pc = "returned"
    /\ N = 3
    /\ maxJobs = 2
    /\ \A i \in Units : unit[i].starts = 1
    /\ unit[2].rank < unit[1].rank

\* C14: a second executeWithConcurrency call on the same task file list, after
\* a call that returned failures and successes, starts runTask for all N
\* units again and counts from zero: its counters are the numbers of its own
\* finished units, and at return every unit has been started once in this call
\* and has an outcome of this call.
C14_ReinvocationRunsEveryUnit ==
    invocation >= 2 =>
        /\ Len(unit) = N
        /\ successful + failed = Cardinality({i \in Units : unit[i].pc = "done"})
        /\ \A i \in Units : unit[i].pc = "queued" => unit[i].result = emptyObject
        /\ pc = "returned" =>
              /\ \A i \in Units : unit[i].starts = 1 /\ unit[i].rank > 0
              /\ ewcResult.successful + ewcResult.failed = N
              /\ ewcResult.successful = Cardinality(Succeeded(ewcResult.results))

\* the second call has returned with every unit succeeding, after a first
\* call on the same three task files that had a failure and a success
C14_Witness ==
    /\ invocation = 2
    /\ pc = "returned"
    /\ N = 3
    /\ Has(previous, "failed")
    /\ previous.failed >= 1
    /\ previous.successful >= 1
    /\ ewcResult.successful = 3
    /\ ewcResult.failed = 0

\* C15: for maxRetries >= 0 the operation is never called more than
\* maxRetries + 1 times, and when it has failed every time retryWithBackoff
\* fails after exactly maxRetries + 1 calls; with maxRetries = 0 that is one
\* call and no wait.
C15_AttemptsAreRetriesPlusOne ==
    policy.maxRetries >= 0 =>
        /\ fnCalls <= policy.maxRetries + 1
        /\ retryPc = "threw" =>
              /\ fnCalls = policy.maxRetries + 1
              /\ Len(failures) = fnCalls
              /\ policy.maxRetries = 0 => fnCalls = 1 /\ waits = <<>>

\* the operation has failed four times under maxRetries = 3
C15_Witness ==
    /\ retryPc = "threw"
    /\ policy.maxRetries = 3
    /\ fnCalls = 4
    /\ Len(failures) = 4

\* C16: the wait after failed attempt k (0-indexed) is
\* min(initialDelay * 2^k, maxDelay), so no wait exceeds maxDelay; with
\* maxRetries = 3 and initialDelay = 1000 the waits are 1000, 2000, 4000 under
\* maxDelay = 8000 and 1000, 2000, 3000 under maxDelay = 3000.
C16_WaitsDoubleUpToMaxDelay ==
    /\ \A k \in DOMAIN waits :
          /\ waits[k] <= policy.maxDelay
          /\ \/ waits[k] = policy.initialDelay * Pow2(k - 1)
             \/ /\ waits[k] = policy.maxDelay
                /\ policy.initialDelay * Pow2(k - 1) > policy.maxDelay
    /\ retryPc = "threw" /\ policy.maxRetries = 3 /\ policy.initialDelay = 1000 =>
          /\ policy.maxDelay = 8000 => waits = <<1000, 2000, 4000>>
          /\ policy.maxDelay = 3000 => waits = <<1000, 2000, 3000>>

\* the third wait was cut from 4000 to maxDelay = 3000
C16_Witness ==
    /\ retryPc = "threw"
    /\ policy.maxRetries = 3
    /\ policy.initialDelay = 1000
    /\ policy.maxDelay = 3000
    /\ waits = <<1000, 2000, 3000>>

\* C17: retryWithBackoff returns at the first attempt that succeeds, with the
\* value of that attempt: once the operation has resolved, it has been called
\* once more than it failed, one wait was made per failure, and neither number
\* grows again.
C17_ReturnsAtFirstSuccess ==
    /\ resolved # <<>> =>
          /\ retryPc = "returned"
          /\ Len(resolved) = 1
          /\ retryResult = resolved[1]
          /\ attempt = Len(failures)
          /\ fnCalls = Len(failures) + 1
          /\ Len(waits) = Len(failures)
    /\ retryPc = "returned" => resolved # <<>>

\* the operation succeeded at its last permitted attempt, after three failures
C17_Witness ==
    /\ retryPc = "returned"
    /\ policy.maxRetries = 3
    /\ attempt = 3
    /\ Len(failures) = 3
    /\ retryResult = "r2"

\* C18: when all maxRetries + 1 attempts have failed, retryWithBackoff throws
\* the error of the final attempt, and throws it at once: maxRetries waits were
\* made in all, each between two attempts, none before the first attempt and
\* none after the last failure.
C18_LastFailureRaisedWithoutWait ==
    /\ retryPc = "calling" => Len(waits) = attempt /\ Len(failures) = attempt
    /\ retryPc = "waiting" => Len(waits) = attempt + 1 /\ Len(failures) = attempt + 1
    /\ retryPc = "threw" /\ policy.maxRetries >= 0 =>
          /\ Len(failures) = policy.maxRetries + 1
          /\ retryThrown = failures[Len(failures)]
          /\ Len(waits) = policy.maxRetries

\* three attempts failed, the last with another error than the first, and
\* that last error was thrown after two waits
C18_Witness ==
    /\ retryPc = "threw"
    /\ policy.maxRetries = 2
    /\ Len(failures) = 3
    /\ failures[1] # failures[3]
    /\ retryThrown = failures[3]
    /\ Len(waits) = 2

\* C19 (as stated): the error retryWithBackoff throws on exhaustion carries
\* the operation label: it has operationName.
C19_RaisedErrorCarriesLabel ==
    retryPc = "threw" /\ policy.maxRetries >= 0 =>
        /\ Has(retryThrown, "operationName")
        /\ retryThrown.operationName = policy.operationName

\* C19 (amended): on exhaustion retryWithBackoff throws the last failure as the
\* operation produced it, without adding the operation label to it; the label
\* is written only to the console notice "<operationName> failed after
\* maxRetries + 1 attempts" that precedes the throw, and no such notice is
\* written before exhaustion.
C19_LabelOnlyInNotice ==
    /\ retryPc = "threw" /\ policy.maxRetries >= 0 =>
          /\ retryThrown \in FnErrors
          /\ ~Has(retryThrown, "operationName")
          /\ Has(notice, "operationName")
          /\ notice.operationName = policy.operationName
          /\ notice.attempts = policy.maxRetries + 1
    /\ retryPc # "threw" => notice = emptyObject

\* a retrier called with an operation label has given up
C19_Witness ==
    /\ retryPc = "threw"
    /\ Has(options, "operationName")
    /\ Has(notice, "operationName")
    /\ notice.operationName = "Cloning u/r"
    /\ notice.attempts = 4

\* the entries of the listing that are subdirectories holding a task.md
TaskDirs == {k \in DOMAIN listing : listing[k].kind = "taskdir"}

\* C20: the task files executeTasks submits are in ascending order of their
\* path, code unit by code unit, whatever the order of the directory listing
\* (so "t/a-b/task.md" comes before "t/a/task.md"), they are handed to the
\* limiter in that order, and they are exactly the task.md paths of the
\* listed subdirectories that contain a task.md.
C20_SubmittedInPathOrder ==
    entry = "executeTasks" =>
        /\ \A i, j \in 1..N : i < j => StrLess(taskFiles[i], taskFiles[j])
        /\ \A i, j \in 1..N :
              /\ taskFiles[i] = TaskFileOf(<<97>>)
              /\ taskFiles[j] = TaskFileOf(<<97, 45, 98>>)
              => j < i
        /\ \A k, l \in DOMAIN queue : k < l => queue[k] < queue[l]
        /\ {taskFiles[i] : i \in 1..N} = {TaskFileOf(listing[k].name) : k \in TaskDirs}
        /\ N = Cardinality(TaskDirs)

\* the listing returned "a" before "a-b", both task directories, and the unit
\* of "a-b" was submitted first
C20_Witness ==
    /\ entry = "executeTasks"
    /\ Len(listing) = 2
    /\ listing[1].name = <<97>> /\ listing[1].kind = "taskdir"
    /\ listing[2].name = <<97, 45, 98>> /\ listing[2].kind = "taskdir"
    /\ N = 2
    /\ taskFiles[1] = TaskFileOf(<<97, 45, 98>>)
    /\ maxJobs = 1
    /\ unit[1].starts = 1
    /\ unit[2].starts = 0

\* the units whose agent process never exits
HungUnits == {i \in Units : unit[i].pc = "hung"}

\* every unit has returned or hangs, each started once
OthersCompleted ==
    \A i \in Units : unit[i].pc \in {"done", "hung"} /\ unit[i].starts = 1

\* C21: a unit whose agent process never exits stays in flight and keeps its
\* slot for ever, and the call neither returns nor throws.  With maxJobs = 1
\* no unit submitted after it is ever started.  As long as fewer units hang
\* than there are slots, every other unit is eventually started and completed.
C21_HungAgentHoldsSlot ==
    /\ [](HungUnits # {} =>
            /\ pc = "executing"
            /\ activeCount >= Cardinality(HungUnits)
            /\ \A i \in HungUnits : unit[i].settle = "pending"
            /\ maxJobs = 1 =>
                  \A i \in HungUnits, j \in Units : i < j => unit[j].starts = 0)
    /\ [][\A i \in HungUnits : unit'[i].pc = "hung"]_vars
    /\ (HungUnits # {} /\ Cardinality(HungUnits) < maxJobs)
          ~> (Cardinality(HungUnits) >= maxJobs \/ OthersCompleted)

\* of three units under a limit of two the first hangs, and the two others
\* have completed through the remaining slot
C21_Witness ==
    /\ N = 3
    /\ maxJobs = 2
    /\ HungUnits = {1}
    /\ unit[2].pc = "done"
    /\ unit[3].pc = "done"
    /\ pc = "executing"

\* C22: cloneRepository never throws; it returns false only when the retrier
\* is exhausted, that is when all CloneMaxRetries + 1 = 6 attempts of the
\* clone command have failed, and it returns true with the first attempt that
\* succeeds; before either it has not returned.
C22_CloneFailsOnlyAfterExhaustion ==
    caller = "cloneRepository" =>
        /\ cloneOutcome # emptyObject =>
              /\ cloneOutcome.kind = "return"
              /\ ~cloneOutcome.value =>
                    /\ fnCalls = 6
                    /\ Len(failures) = 6
                    /\ resolved = <<>>
              /\ cloneOutcome.value =>
                    /\ Len(resolved) = 1
                    /\ fnCalls = Len(failures) + 1
        /\ resolved # <<>> => cloneOutcome = Return(TRUE)
        /\ resolved = <<>> /\ Len(failures) < CloneMaxRetries + 1 =>
              cloneOutcome = emptyObject

\* cloneRepository, called by itself, has returned false after six failed
\* attempts and five waits
C22_Witness ==
    /\ repoEntry = "cloneRepository"
    /\ repoPc = "returned"
    /\ cloneOutcome = Return(FALSE)
    /\ repoOutcome = Return(FALSE)
    /\ fnCalls = 6
    /\ Len(waits) = 5

\* C23: when the output directory does not exist, or lists no subdirectory
\* that contains a task.md, executeTasks throws an error and no unit is
\* started: executeWithConcurrency is not called, runTask is not called and
\* nothing is detected or spawned.
C23_NoTaskFilesNoUnits ==
    entry = "executeTasks" /\ (~outputDirExists \/ TaskDirs = {}) =>
        /\ pc = "threw"
        /\ thrown # null
        /\ summary = emptyObject
        /\ unit = <<>>
        /\ invocation = 0
        /\ activeCount = 0
        /\ detectCalls = 0

\* the output directory exists and lists a plain file and a directory without
\* task.md: executeTasks threw
C23_Witness ==
    /\ entry = "executeTasks"
    /\ outputDirExists
    /\ Len(listing) = 2
    /\ listing[1].kind = "file"
    /\ listing[2].kind = "dir"
    /\ pc = "threw"

\* the units whose runTask has returned
Completed == {i \in Units : unit[i].pc = "done"}

\* C24: in every state of an executeWithConcurrency call successful + failed
\* is the number of units whose runTask has returned, each counted on the
\* side of its own result, and the queued, the running and the completed
\* units together are the N submitted ones.
C24_CountersTrackCompletions ==
    /\ successful + failed = Cardinality(Completed)
    /\ successful =
          Cardinality({i \in Completed : Has(unit[i].result, "success") /\ unit[i].result.success})
    /\ Len(queue) + activeCount + Cardinality(Completed) = N
    /\ activeCount = Cardinality({i \in Units : InFlight(i)})
    /\ Len(unit) = N

\* two units have completed one right after the other, one failed and one
\* succeeded, while a third is still running
C24_Witness ==
    /\ N = 3
    /\ maxJobs = 3
    /\ pc = "executing"
    /\ {unit[1].rank, unit[2].rank} = {1, 2}
    /\ InFlight(3)
    /\ successful = 1
    /\ failed = 1

\* C25: whatever the concurrency limit, units are started in submission
\* order: when unit j has been started, every unit submitted before it has
\* been started too, and the queue holds the waiting units in submission
\* order.  Completion order is free.
C25_StartedInSubmissionOrder ==
    /\ \A i, j \in Units : i < j /\ unit[j].starts > 0 => unit[i].starts > 0
    /\ \A k, l \in DOMAIN queue : k < l => queue[k] < queue[l]
    /\ \A k \in DOMAIN queue, i \in Units : unit[i].starts > 0 => i < queue[k]

\* under a limit of two the second unit completed first, and the third unit
\* was started in its slot while the first was still running
C25_Witness ==
    /\ N = 3
    /\ maxJobs = 2
    /\ unit[2].rank = 1
    /\ InFlight(1)
    /\ InFlight(3)

\* C26: a unit waits only while maxJobs units are in flight, so no state has
\* a free slot and a waiting unit; and a step in which a running unit
\* completes while units wait starts the head of the queue in that same step,
\* leaving the number of running units unchanged.
C26_WorkConserving ==
    /\ []((queue # <<>> \/ \E i \in Units : unit[i].pc = "queued") =>
             /\ activeCount = maxJobs
             /\ Cardinality({i \in Units : InFlight(i)}) = maxJobs)
    /\ [][\A i \in Units :
             (unit[i].pc # "done" /\ unit'[i].pc = "done" /\ queue # <<>>) =>
                 /\ unit[Head(queue)].starts = 0
                 /\ unit'[Head(queue)].starts = 1
                 /\ queue' = Tail(queue)
                 /\ activeCount' = activeCount]_vars

\* the first of three units under a limit of one has completed and the
\* second was started at once, the third still waiting
C26_Witness ==
    /\ N = 3
    /\ maxJobs = 1
    /\ unit[1].pc = "done"
    /\ InFlight(2)
    /\ unit[2].starts = 1
    /\ queue = <<3>>
    /\ activeCount = 1

\* helper `op` has been called / has settled with true / with false
Attempted(op) == repoPc = op \/ \E k \in DOMAIN steps : steps[k].op = op
StepOk(op) == \E k \in DOMAIN steps : steps[k].op = op /\ steps[k].ok
StepFailed(op) == \E k \in DOMAIN steps : steps[k].op = op /\ ~steps[k].ok

\* ensureRepoExists was called and found no repository directory
RepoAbsent == repoEntry = "ensureRepoExists" /\ StepFailed("fs.pathExists")

\* ensureRepoExists was called and found the repository directory
RepoPresent == repoEntry = "ensureRepoExists" /\ StepOk("fs.pathExists")

\* ensureRepoExists has returned true / false
ReturnedTrue == repoPc = "returned" /\ repoOutcome.value
ReturnedFalse == repoPc = "returned" /\ ~repoOutcome.value

\* the place of a helper in the order the claim gives
StepRank(op) ==
    CASE op = "fs.pathExists" -> 0
      [] op = "getCurrentGitHubUser" -> 1
      [] op = "hasFork" -> 2
      [] op = "createFork" -> 3
      [] op = "cloneRepository" -> 4
      [] op = "configureUpstream" -> 5
      [] op = "fetchLatestBranches" -> 6
      [] OTHER -> 7

\* C27: with the repository absent ensureRepoExists calls its helpers in the
\* order fork check, fork creation, clone, upstream configuration, fetch, each
\* at most once; the fork is created only when the fork check found none;
\* after a failed fork creation no clone is attempted, after a failed clone
\* no upstream configuration; and it returns true only if a fork existed or
\* was created, the clone succeeded and the upstream was configured, the
\* fetch having been attempted last.
C27_StepsInOrderShortCircuit ==
    RepoAbsent =>
        /\ \A k, l \in DOMAIN steps :
              k < l => StepRank(steps[k].op) < StepRank(steps[l].op)
        /\ \A k \in DOMAIN steps : StepRank(steps[k].op) <= StepRank(repoPc)
        /\ Attempted("createFork") => StepFailed("hasFork")
        /\ Attempted("cloneRepository") => StepOk("hasFork") \/ StepOk("createFork")
        /\ StepFailed("createFork") =>
              /\ ~Attempted("cloneRepository")
              /\ fnCalls = 0
              /\ ReturnedFalse
        /\ StepFailed("cloneRepository") =>
              /\ ~Attempted("configureUpstream")
              /\ ReturnedFalse
        /\ StepFailed("configureUpstream") => ReturnedFalse
        /\ ReturnedTrue =>
              /\ StepOk("hasFork") \/ StepOk("createFork")
              /\ StepOk("cloneRepository")
              /\ StepOk("configureUpstream")
              /\ steps[Len(steps)].op = "fetchLatestBranches"

\* no fork existed, one was created, the clone and the upstream configuration
\* succeeded, the fetch failed, and ensureRepoExists returned true
C27_Witness ==
    /\ RepoAbsent
    /\ ReturnedTrue
    /\ StepFailed("hasFork")
    /\ StepOk("createFork")
    /\ StepOk("cloneRepository")
    /\ StepOk("configureUpstream")
    /\ StepFailed("fetchLatestBranches")
    /\ Len(steps) = 7

\* C28: ensureRepoExists never throws: every provisioning failure, the one of
\* determining the current GitHub user included, reaches the caller as the
\* return value false.
C28_FailuresAreFalseNeverThrown ==
    repoEntry = "ensureRepoExists" =>
        /\ repoPc # "threw"
        /\ \/ StepFailed("getCurrentGitHubUser")
           \/ StepFailed("createFork")
           \/ StepFailed("cloneRepository")
           \/ StepFailed("configureUpstream")
           => ReturnedFalse

\* C29: with the repository directory present ensureRepoExists attempts no
\* fork and no clone: it calls updateUpstreamRemote and fetchLatestBranches
\* and nothing else, and it returns true whatever those two returned.
C29_ExistingRepoAlwaysTrue ==
    RepoPresent =>
        /\ ~Attempted("getCurrentGitHubUser")
        /\ ~Attempted("hasFork")
        /\ ~Attempted("createFork")
        /\ ~Attempted("cloneRepository")
        /\ ~Attempted("configureUpstream")
        /\ fnCalls = 0
        /\ repoPc \in {"updateUpstreamRemote", "fetchLatestBranches", "returned"}
        /\ repoPc = "returned" =>
              /\ repoOutcome.value
              /\ Len(steps) = 3
              /\ steps[2].op = "updateUpstreamRemote"
              /\ steps[3].op = "fetchLatestBranches"

\* the directory was there, updating the upstream remote failed, the fetch
\* failed, and ensureRepoExists returned true
C29_Witness ==
    /\ RepoPresent
    /\ ReturnedTrue
    /\ StepFailed("updateUpstreamRemote")
    /\ StepFailed("fetchLatestBranches")

\* C30: the units executeTasks submits in one run have pairwise different
\* log file paths, so two units whose agents run at the same time never
\* write to the same execution.log, and no two results name the same log.
C30_LogFilesUnitExclusive ==
    entry = "executeTasks" =>
        /\ \A i, j \in 1..N :
              i # j => logFileOf(taskFiles[i]) # logFileOf(taskFiles[j])
        /\ \A i, j \in Units :
              /\ i # j
              /\ Has(unit[i].result, "logFile")
              /\ Has(unit[j].result, "logFile")
              => unit[i].result.logFile # unit[j].result.logFile

\* the agents of two units of one executeTasks run are running side by side
C30_Witness ==
    /\ entry = "executeTasks"
    /\ N = 2
    /\ maxJobs = 2
    /\ unit[1].pc = "spawned"
    /\ unit[2].pc = "spawned"
    /\ logFileOf(taskFiles[1]) # logFileOf(taskFiles[2])

====
